---- MODULE Spec2Model ----
(***************************************************************************)
(* Model of the Discord webhook relay handler                              *)
(* (packages/discord-webhook-relay/send/__main__.py).                      *)
(*                                                                         *)
(* A Python str that is split on "/" is a sequence of tokens: the token    *)
(* "/" is the separator character, every other token is a run of           *)
(* characters without a "/".  A value that may be None is a record         *)
(* [some, v].  One behaviour is one invocation of main in one environment. *)
(***************************************************************************)
EXTENDS Integers, Sequences, FiniteSets, TLC

\* Longest request path, in tokens.
MaxPathLen == 3

Slash == "/"
PathTokens == {"/", "k", "warning", "critical"}

NoneTok == [some |-> FALSE, v |-> <<>>]
SomeTok(s) == [some |-> TRUE, v |-> s]
NoneStr == [some |-> FALSE, v |-> ""]
SomeStr(s) == [some |-> TRUE, v |-> s]

\* Python truthiness of an optional string: None and "" are falsy.
TruthyTok(o) == o.some /\ o.v # <<>>
TruthyStr(o) == o.some /\ o.v # ""

(***************************************************************************)
(* str.strip('/'), str.split('/') and str.lower()                          *)
(***************************************************************************)
RECURSIVE lstrip(_)
lstrip(s) == IF Len(s) > 0 /\ s[1] = Slash THEN lstrip(SubSeq(s, 2, Len(s))) ELSE s

RECURSIVE rstrip(_)
rstrip(s) == IF Len(s) > 0 /\ s[Len(s)] = Slash THEN rstrip(SubSeq(s, 1, Len(s) - 1)) ELSE s

strip(s) == rstrip(lstrip(s))

RECURSIVE split(_)
split(s) ==
    IF \A i \in 1..Len(s) : s[i] # Slash
    THEN <<s>>
    ELSE LET i == CHOOSE i \in 1..Len(s) : s[i] = Slash /\ \A j \in 1..(i - 1) : s[j] # Slash
         IN  <<SubSeq(s, 1, i - 1)>> \o split(SubSeq(s, i + 1, Len(s)))

lower(s) ==
    CASE s = "TRUE" -> "true"
      [] s = "True" -> "true"
      [] s = "FALSE" -> "false"
      [] OTHER -> s

\* os.environ.get(name, default)
environ_get(o, default) == IF o.some THEN o.v ELSE default

(***************************************************************************)
(* The environment and the requests                                        *)
(***************************************************************************)
Envs ==
    [ API_KEY : {NoneTok, SomeTok(<<>>), SomeTok(<<"k">>)},
      DISCORD_WEBHOOK_URL_WARNING : {NoneStr, SomeStr(""), SomeStr("https://discord/warning")},
      DISCORD_WEBHOOK_URL_CRITICAL : {NoneStr, SomeStr("https://discord/critical")},
      DEBUG_MODE : {NoneStr, SomeStr("True"), SomeStr("false")},
      AUTO_COLORS : {NoneStr, SomeStr("TRUE"), SomeStr("false")} ]

\* A JSON value in the place of an embed's color: absent/null, a number or a string.
NoColor == [kind |-> "none", n |-> 0]
IntColor(n) == [kind |-> "int", n |-> n]
StrColor == [kind |-> "str", n |-> 0]

\* An element of an embed's fields list; EmbedField requires name and value.
GoodField == [name |-> SomeStr("n"), value |-> SomeStr("v")]
BadField == [name |-> SomeStr("n"), value |-> NoneStr]

NoFields == [kind |-> "absent", items |-> <<>>]
ListFields(fs) == [kind |-> "list", items |-> fs]

\* An element of the embeds list: a JSON object (obj) with the keys of Embed that
\* the handler reads and the set of its keys the schema does not declare, or a
\* JSON value that is not an object.
NotAnObject ==
    [obj |-> FALSE, title |-> NoneStr, description |-> NoneStr, fields |-> NoFields,
     color |-> NoColor, unknown |-> {}]
EmbedObjects ==
    [ obj : {TRUE},
      title : {NoneStr, SomeStr(""), SomeStr("t")},
      description : {NoneStr, SomeStr("d")},
      fields : {NoFields, ListFields(<<>>), ListFields(<<GoodField>>), ListFields(<<BadField>>)},
      color : {NoColor, IntColor(255), StrColor},
      unknown : {{}, {"bogus"}} ]

NoEmbeds == [kind |-> "absent", items |-> <<>>]
ListEmbeds(es) == [kind |-> "list", items |-> es]
EmbedsValues ==
    {NoEmbeds, ListEmbeds(<<>>), ListEmbeds(<<NotAnObject>>)}
        \cup {ListEmbeds(<<e>>) : e \in EmbedObjects}

\* The value under '__ow_path': a str, no such key, or a value that is no str.
StrPath(s) == [kind |-> "str", v |-> s]
NoPath == [kind |-> "absent", v |-> <<>>]
BadPath == [kind |-> "bad", v |-> <<>>]
Strings == UNION {[1..n -> PathTokens] : n \in 0..MaxPathLen}
PathValues == {NoPath, BadPath} \cup {StrPath(s) : s \in Strings}

TitledEmbed ==
    [obj |-> TRUE, title |-> SomeStr("t"), description |-> NoneStr, fields |-> NoFields,
     color |-> NoColor, unknown |-> {}]

\* args: every path with two bodies, and every body with the two routed paths.
PathProbes ==
    [ ow_path : PathValues,
      content : {NoneStr},
      embeds : {NoEmbeds, ListEmbeds(<<TitledEmbed>>)},
      unknown : {{}} ]
PayloadProbes ==
    [ ow_path : {StrPath(<<"k", "/", "warning">>), StrPath(<<"k", "/", "critical">>)},
      content : {NoneStr, SomeStr("c")},
      embeds : EmbedsValues,
      unknown : {{}, {"bogus"}} ]
Requests == PathProbes \cup PayloadProbes

(***************************************************************************)
(* Responses                                                               *)
(***************************************************************************)
NoError == [text |-> "", status |-> 0, detail |-> ""]
NullDebug ==
    [kind |-> "null", original_path |-> <<>>, path_parts |-> <<>>,
     api_key_from_path |-> NoneTok, webhook_type |-> NoneTok,
     expected_api_key |-> NoneTok, webhook_url |-> NoneStr]
NoDetails == [kind |-> "none", v |-> ""]
EmptyBody ==
    [keys |-> {}, error |-> NoError, debug |-> NullDebug, details |-> NoDetails,
     message |-> "", level |-> <<>>]
NoResponse == [statusCode |-> 0, body |-> EmptyBody]

\* Mutant: debug_info is returned whatever debug_mode is.
debug_error_body_always(text, dm, info) ==
    [EmptyBody EXCEPT !.keys = {"error", "debug"},
                      !.error = [text |-> text, status |-> 0, detail |-> ""],
                      !.debug = info]

\* json.dumps({"error": ..., "debug": debug_info if debug_mode else None})
debug_error_body(text, dm, info) ==
    [EmptyBody EXCEPT !.keys = {"error", "debug"},
                      !.error = [text |-> text, status |-> 0, detail |-> ""],
                      !.debug = IF dm THEN info ELSE NullDebug]

\* json.dumps({"error": ...})
error_body(text, detail) ==
    [EmptyBody EXCEPT !.keys = {"error"},
                      !.error = [text |-> text, status |-> 0, detail |-> detail]]

\* The outermost except Exception handler.
internal_server_error(e) ==
    [statusCode |-> 500, body |-> error_body("Internal server error: ", e)]

\* Mutant: no except RequestException clause, the outermost handler answers.
error_sending_webhook_uncaught(e) == internal_server_error(e)

\* The except requests.exceptions.RequestException handler.
error_sending_webhook(e) ==
    [statusCode |-> 500, body |-> error_body("Error sending webhook: ", e)]

(***************************************************************************)
(* validate_api_key, get_webhook_url and the pydantic models               *)
(***************************************************************************)
\* Mutant: the key is read from the last part of the path, path_parts[-1].
validate_api_key_last_part(environ, path) ==
    LET expected_key == environ.API_KEY
    IN  IF ~TruthyTok(expected_key) THEN FALSE
        ELSE LET path_parts == split(strip(path))
             IN  IF Len(path_parts) < 2 THEN FALSE
                 ELSE path_parts[Len(path_parts)] = expected_key.v

validate_api_key(environ, path) ==
    LET expected_key == environ.API_KEY
    IN  IF ~TruthyTok(expected_key) THEN FALSE
        ELSE LET path_parts == split(strip(path))
             IN  IF Len(path_parts) < 2 THEN FALSE
                 ELSE path_parts[Len(path_parts) - 1] = expected_key.v

\* Mutant: every selector other than 'warning' gets the critical URL.
get_webhook_url_else_critical(environ, path) ==
    LET path_parts == split(strip(path))
    IN  IF Len(path_parts) < 2 THEN NoneStr
        ELSE LET webhook_type == path_parts[Len(path_parts)]
             IN  IF webhook_type = <<"warning">> THEN environ.DISCORD_WEBHOOK_URL_WARNING
                 ELSE environ.DISCORD_WEBHOOK_URL_CRITICAL

get_webhook_url(environ, path) ==
    LET path_parts == split(strip(path))
    IN  IF Len(path_parts) < 2 THEN NoneStr
        ELSE LET webhook_type == path_parts[Len(path_parts)]
             IN  IF webhook_type = <<"warning">> THEN environ.DISCORD_WEBHOOK_URL_WARNING
                 ELSE IF webhook_type = <<"critical">> THEN environ.DISCORD_WEBHOOK_URL_CRITICAL
                 ELSE NoneStr

debug_mode(environ) == lower(environ_get(environ.DEBUG_MODE, "false")) = "true"

\* Mutant: AUTO_COLORS is compared without .lower().
auto_colors_case_sensitive(environ) == environ_get(environ.AUTO_COLORS, "true") = "true"

auto_colors(environ) == lower(environ_get(environ.AUTO_COLORS, "true")) = "true"

debug_info(path, webhook_url) ==
    LET path_parts == split(strip(path))
    IN  [kind |-> "object",
         original_path |-> path,
         path_parts |-> path_parts,
         api_key_from_path |->
             IF Len(path_parts) >= 2 THEN SomeTok(path_parts[Len(path_parts) - 1]) ELSE NoneTok,
         webhook_type |->
             IF Len(path_parts) >= 1 THEN SomeTok(path_parts[Len(path_parts)]) ELSE NoneTok,
         expected_api_key |-> NoneTok,
         webhook_url |-> webhook_url]

\* EmbedField: name and value are required.
EmbedField(f) == f.name.some /\ f.value.some

\* Embed: color is Optional[int], fields is Optional[List[EmbedField]]; the model has
\* no Config, so keys it does not declare are ignored and dropped.
Embed(e) ==
    /\ e.obj
    /\ e.color.kind \in {"none", "int"}
    /\ \A i \in 1..Len(e.fields.items) : EmbedField(e.fields.items[i])

\* DiscordWebhook(**body): extra = "forbid" on the keys of body.
DiscordWebhook(body) ==
    /\ body.unknown = {}
    /\ \A i \in 1..Len(body.embeds) : Embed(body.embeds[i])

\* webhook_data.dict(exclude_none=True): the declared keys only.
webhook_data_dict(body) ==
    [content |-> body.content,
     tts |-> FALSE,
     embeds |-> [i \in 1..Len(body.embeds) |-> [body.embeds[i] EXCEPT !.unknown = {}]]]

NoJson == [content |-> NoneStr, tts |-> FALSE, embeds |-> <<>>]
EmptyEmbed ==
    [obj |-> TRUE, title |-> NoneStr, description |-> NoneStr, fields |-> NoFields,
     color |-> NoColor, unknown |-> {}]

(***************************************************************************)
(* main, up to the call of requests.post                                   *)
(***************************************************************************)
NoPost == [kind |-> "response", response |-> NoResponse, url |-> "", json |-> NoJson,
           level |-> <<>>, passed |-> <<>>]

\* main returns `response` before any POST, having passed the steps `passed`.
Return(response, passed) == [NoPost EXCEPT !.response = response, !.passed = passed]

\* main calls requests.post(url, json=json) and blocks.
Post(url, json, level, passed) ==
    [NoPost EXCEPT !.kind = "post", !.url = url, !.json = json, !.level = level,
                   !.passed = passed]

\* Lines 112-120: content and embeds are taken from args, nothing else is.
build_body(a) ==
    LET embeds == IF a.embeds.kind = "absent" THEN <<>> ELSE a.embeds.items
    IN  [content |-> a.content,
         embeds |-> IF embeds = <<>> THEN <<EmptyEmbed>> ELSE embeds,
         unknown |-> {}]

\* Line 123: the selector the rest of main calls path.
webhook_level(path) ==
    LET parts == split(path)
    IN  IF Len(parts) > 1 THEN parts[Len(parts)] ELSE <<>>

\* Line 128.
auto_color(level) == IF level = <<"warning">> THEN 16776960 ELSE 16711680

\* Mutant: the color counts as content.
has_content_or_color(embed) ==
    \/ TruthyStr(embed.title)
    \/ TruthyStr(embed.description)
    \/ embed.fields.items # <<>>
    \/ embed.color.kind # "none"

\* Lines 131-135.
has_content(embed) ==
    \/ TruthyStr(embed.title)
    \/ TruthyStr(embed.description)
    \/ embed.fields.items # <<>>

main_request(environ, a) ==
    IF a.ow_path.kind = "bad"
    THEN Return(internal_server_error("AttributeError"), <<>>)
    ELSE
    LET path == strip(a.ow_path.v)
        dm == debug_mode(environ)
    IN
    IF ~validate_api_key(environ, path)
    THEN Return([statusCode |-> 401,
                 body |-> debug_error_body("Invalid or missing API key", dm,
                                           debug_info(path, NoneStr))], <<>>)
    ELSE
    LET webhook_url == get_webhook_url(environ, path)
    IN
    IF ~TruthyStr(webhook_url)
    THEN Return([statusCode |-> 400,
                 body |-> debug_error_body("Invalid webhook path", dm,
                                           debug_info(path, webhook_url))], <<"auth">>)
    ELSE
    LET body0 == build_body(a)
        level == webhook_level(path)
        colored == auto_colors(environ)
    IN
    IF ~body0.embeds[1].obj
    THEN Return(internal_server_error(IF colored THEN "TypeError" ELSE "AttributeError"),
                <<"auth", "resolve">>)
    ELSE
    LET body == IF colored
                THEN [body0 EXCEPT !.embeds[1].color = IntColor(auto_color(level))]
                ELSE body0
    IN
    IF ~has_content(body.embeds[1])
    THEN Return([statusCode |-> 400,
                 body |-> error_body("Embed must contain at least one of the fields: title, description or fields", "")],
                <<"auth", "resolve">>)
    ELSE IF ~DiscordWebhook(body)
    THEN Return([statusCode |-> 400, body |-> error_body("Validation error: ", "ValidationError")],
                <<"auth", "resolve", "content">>)
    ELSE Post(webhook_url.v, webhook_data_dict(body), level,
              <<"auth", "resolve", "content", "schema">>)

(***************************************************************************)
(* main, from the return of requests.post                                  *)
(***************************************************************************)
NoReply == [kind |-> "none", status |-> 0, content |-> "empty"]
\* requests.post raised a transport failure (ConnectionError, Timeout, ...).
TransportFailure == [kind |-> "transport", status |-> 0, content |-> "empty"]
\* The destination answered: its status, and its body (empty, JSON, or not JSON).
Replies ==
    [kind : {"http"}, status : {204, 304, 403, 500}, content : {"empty", "json", "raw"}]

\* Response.ok: raise_for_status() raises for 400 <= status_code < 600 only.
response_ok(status) == ~(400 <= status /\ status < 600)

\* response.json() if response.content else "No error details"
error_details(content) ==
    IF content = "empty" THEN [kind |-> "text", v |-> "No error details"]
    ELSE [kind |-> "json", v |-> "destination error"]

\* decode_is_request_exception: response.json() raises
\* requests.exceptions.JSONDecodeError, a RequestException (requests >= 2.27), or a
\* plain ValueError (older requests).
main_reply(level, r, decode_is_request_exception) ==
    IF r.kind = "transport" THEN error_sending_webhook("ConnectionError")
    ELSE IF ~response_ok(r.status)
    THEN IF r.content = "raw"
         THEN IF decode_is_request_exception
              THEN error_sending_webhook("JSONDecodeError")
              ELSE internal_server_error("JSONDecodeError")
         ELSE [statusCode |-> r.status,
               body |-> [EmptyBody EXCEPT
                           !.keys = {"error", "details"},
                           !.error = [text |-> "Discord returned an error: ",
                                      status |-> r.status, detail |-> ""],
                           !.details = error_details(r.content)]]
    ELSE [statusCode |-> 200,
          body |-> [EmptyBody EXCEPT !.keys = {"message", "level"},
                                     !.message = "Webhook successfully sent",
                                     !.level = level]]

(***************************************************************************)
(* The state machine                                                       *)
(***************************************************************************)
VARIABLES
    env,        \* os.environ, read-only
    pc,         \* "idle": main not called; "posting": inside requests.post; "done": returned
    args,       \* the argument of main
    response,   \* what main returned
    posts,      \* the calls of requests.post, as [url, json]
    level,      \* main's variable path after line 123
    reply,      \* what requests.post returned or raised
    passed      \* the steps of main that succeeded, in order

vars == <<env, pc, args, response, posts, level, reply, passed>>

NoArgs == [ow_path |-> NoPath, content |-> NoneStr, embeds |-> NoEmbeds, unknown |-> {}]

Init ==
    /\ env \in Envs
    /\ pc = "idle"
    /\ args = NoArgs
    /\ response = NoResponse
    /\ posts = <<>>
    /\ level = <<>>
    /\ reply = NoReply
    /\ passed = <<>>

\* main(args) is called and runs until it returns or calls requests.post.
Invoke ==
    /\ pc = "idle"
    /\ \E a \in Requests :
        LET r == main_request(env, a)
        IN  /\ args' = a
            /\ passed' = r.passed
            /\ level' = r.level
            /\ IF r.kind = "post"
               THEN /\ pc' = "posting"
                    /\ posts' = Append(posts, [url |-> r.url, json |-> r.json])
                    /\ response' = response
               ELSE /\ pc' = "done"
                    /\ posts' = posts
                    /\ response' = r.response
    /\ UNCHANGED <<env, reply>>

\* The destination answers the POST and main returns.
DestinationReplies ==
    /\ pc = "posting"
    /\ \E r \in Replies, d \in BOOLEAN :
        /\ reply' = r
        /\ response' = main_reply(level, r, d)
    /\ pc' = "done"
    /\ UNCHANGED <<env, args, posts, level, passed>>

\* requests.post raises a RequestException and main returns.
TransportFails ==
    /\ pc = "posting"
    /\ reply' = TransportFailure
    /\ response' = main_reply(level, TransportFailure, FALSE)
    /\ pc' = "done"
    /\ UNCHANGED <<env, args, posts, level, passed>>

Next == Invoke \/ DestinationReplies \/ TransportFails

Spec == Init /\ [][Next]_vars

\* requests.post returns or raises: an invocation is not left inside it forever.
FairSpec == Spec /\ WF_vars(Next)

(***************************************************************************)
(* Vocabulary of the claims, read off the request and the environment      *)
(***************************************************************************)
Called == pc # "idle"
Returned == pc = "done"
StringPath == args.ow_path.kind # "bad"
Segments == split(strip(args.ow_path.v))
KeyConfigured == env.API_KEY.some /\ env.API_KEY.v # <<>>
CarriesKey == Len(Segments) >= 2 /\ Segments[Len(Segments) - 1] = env.API_KEY.v
Authenticated == Called /\ StringPath /\ KeyConfigured /\ CarriesKey
Selector == Segments[Len(Segments)]
ConfiguredUrl ==
    IF Selector = <<"warning">> THEN env.DISCORD_WEBHOOK_URL_WARNING
    ELSE env.DISCORD_WEBHOOK_URL_CRITICAL
Routed ==
    /\ Authenticated
    /\ Selector \in {<<"warning">>, <<"critical">>}
    /\ ConfiguredUrl.some /\ ConfiguredUrl.v # ""
ErrorIs(status, text) ==
    /\ Returned
    /\ response.statusCode = status
    /\ "error" \in response.body.keys
    /\ response.body.error.text = text
NoPostIssued == posts = <<>>
IsTrue(o) == o.some /\ o.v \in {"true", "True", "TRUE"}
DebugOn == IsTrue(env.DEBUG_MODE)
AutoColorsOn == ~env.AUTO_COLORS.some \/ IsTrue(env.AUTO_COLORS)
FirstEmbedGiven == args.embeds.items # <<>>
FirstEmbed == args.embeds.items[1]

(***************************************************************************)
(* C1  Every invocation with a string path that does not carry the         *)
(* configured API_KEY as its second-to-last segment, or with API_KEY unset *)
(* or empty, answers 401 "Invalid or missing API key" and issues no POST,  *)
(* whatever the selector and the body are.                                 *)
(***************************************************************************)
C1_Unauthorized ==
    (Called /\ StringPath /\ (~KeyConfigured \/ ~CarriesKey))
        => (ErrorIs(401, "Invalid or missing API key") /\ NoPostIssued)

\* A wrong key in front of a routed selector, with a body that would be forwarded.
C1_Witness ==
    /\ Returned /\ StringPath /\ KeyConfigured
    /\ Len(Segments) >= 2 /\ Segments[Len(Segments) - 1] # env.API_KEY.v
    /\ Selector = <<"warning">> /\ TruthyStr(env.DISCORD_WEBHOOK_URL_WARNING)
    /\ FirstEmbedGiven
    /\ response.statusCode = 401

(***************************************************************************)
(* C2  Every authenticated invocation whose selector is not exactly        *)
(* "warning" or "critical", or whose selector's URL is unset or empty,     *)
(* answers 400 "Invalid webhook path" and issues no POST.                  *)
(***************************************************************************)
C2_InvalidWebhookPath ==
    (Authenticated /\ ~Routed) => (ErrorIs(400, "Invalid webhook path") /\ NoPostIssued)

\* The selector matches, but its URL is configured as the empty string.
C2_Witness ==
    /\ Authenticated
    /\ Selector = <<"warning">>
    /\ env.DISCORD_WEBHOOK_URL_WARNING = SomeStr("")
    /\ response.statusCode = 400

(***************************************************************************)
(* C3  No part of any response body contains the value of the configured   *)
(* API_KEY, with DEBUG_MODE true or false, on every response (401 and 400  *)
(* "Invalid webhook path" included).  Stated for the invocations whose key *)
(* validate_api_key accepts: what their body repeats is known to be the    *)
(* secret.                                                                 *)
(***************************************************************************)
Contains(s, k) == \E i \in 0..(Len(s) - Len(k)) : SubSeq(s, i + 1, i + Len(k)) = k

BodyContainsKey ==
    LET b == response.body
        k == env.API_KEY.v
    IN  \/ Contains(b.level, k)
        \/ /\ b.debug.kind = "object"
           /\ \/ Contains(b.debug.original_path, k)
              \/ \E i \in 1..Len(b.debug.path_parts) : Contains(b.debug.path_parts[i], k)
              \/ b.debug.api_key_from_path.some /\ Contains(b.debug.api_key_from_path.v, k)
              \/ b.debug.webhook_type.some /\ Contains(b.debug.webhook_type.v, k)
              \/ b.debug.expected_api_key.some /\ Contains(b.debug.expected_api_key.v, k)

C3_NoSecretInResponse == (Returned /\ Authenticated) => ~BodyContainsKey

(***************************************************************************)
(* C4  Every authenticated request with a routed selector that reaches     *)
(* schema validation with a field the schema does not declare, at the top  *)
(* level of the payload or inside an embed, is rejected with 400           *)
(* "Validation error: ..." and is never forwarded.                         *)
(***************************************************************************)
UndeclaredField ==
    \/ args.unknown # {}
    \/ \E i \in 1..Len(args.embeds.items) : args.embeds.items[i].unknown # {}

ContentPresent ==
    /\ FirstEmbedGiven
    /\ FirstEmbed.obj
    /\ \/ FirstEmbed.title.some /\ FirstEmbed.title.v # ""
       \/ FirstEmbed.description.some /\ FirstEmbed.description.v # ""
       \/ FirstEmbed.fields.items # <<>>

C4_StrictSchema ==
    (Routed /\ ContentPresent /\ UndeclaredField)
        => (Returned => (ErrorIs(400, "Validation error: ") /\ NoPostIssued))

(***************************************************************************)
(* C5  Whenever the destination answers the POST with a non-2xx status s,  *)
(* the response status is s, the error is "Discord returned an error: s"   *)
(* and details are the destination's error details, or "No error details"  *)
(* for an empty body; for every destination body, not JSON included.       *)
(* Stated for the statuses s of 400 and above.                             *)
(***************************************************************************)
Is2xx(status) == 200 <= status /\ status <= 299

C5_UpstreamRejection ==
    (Returned /\ reply.kind = "http" /\ ~Is2xx(reply.status) /\ reply.status >= 400)
        => /\ response.statusCode = reply.status
           /\ response.body.error.text = "Discord returned an error: "
           /\ response.body.error.status = reply.status
           /\ "details" \in response.body.keys
           /\ IF reply.content = "empty"
              THEN response.body.details = [kind |-> "text", v |-> "No error details"]
              ELSE response.body.details.kind = "json"

(***************************************************************************)
(* C6  Every authenticated request with a routed selector whose first      *)
(* embed (or the empty embed generated when embeds is absent or empty) has *)
(* no title, no description and an empty or absent fields list answers 400 *)
(* with the missing-content error and issues no POST, also with content    *)
(* given and with the color auto-color has set.                            *)
(***************************************************************************)
FirstEmbedBlank ==
    \/ ~FirstEmbedGiven
    \/ /\ FirstEmbed.obj
       /\ ~FirstEmbed.title.some
       /\ ~FirstEmbed.description.some
       /\ FirstEmbed.fields.items = <<>>

C6_MissingContent ==
    (Routed /\ FirstEmbedBlank)
        => /\ ErrorIs(400, "Embed must contain at least one of the fields: title, description or fields")
           /\ NoPostIssued

\* content is given, auto-color is on and the caller's first embed has only a color.
C6_Witness ==
    /\ Routed /\ FirstEmbedGiven /\ FirstEmbedBlank
    /\ FirstEmbed.color = IntColor(255)
    /\ FirstEmbed.fields = ListFields(<<>>)
    /\ args.content = SomeStr("c")
    /\ AutoColorsOn
    /\ response.statusCode = 400

(***************************************************************************)
(* C7  In every invocation that reaches the forward step the first embed   *)
(* of the outbound payload has color 16776960 (selector "warning") or      *)
(* 16711680 ("critical") when AUTO_COLORS is unset or "true" in any case,  *)
(* whatever color the caller gave; otherwise it has the caller's color, or *)
(* none when the caller gave none.                                         *)
(***************************************************************************)
C7_AutoColor ==
    posts # <<>> =>
        LET sent == posts[1].json.embeds[1].color
        IN  IF AutoColorsOn
            THEN /\ Selector = <<"warning">> => sent = [kind |-> "int", n |-> 16776960]
                 /\ Selector = <<"critical">> => sent = [kind |-> "int", n |-> 16711680]
            ELSE sent = FirstEmbed.color

\* AUTO_COLORS=TRUE overwrites the caller's 255 on the critical channel.
C7_Witness ==
    /\ posts # <<>>
    /\ env.AUTO_COLORS = SomeStr("TRUE")
    /\ Selector = <<"critical">>
    /\ FirstEmbed.color = IntColor(255)
    /\ posts[1].json.embeds[1].color.n = 16711680

(***************************************************************************)
(* C8  At most one POST is issued per invocation; it is issued if and only *)
(* if authentication, destination resolution, the content-presence check   *)
(* and schema validation succeeded, in that order; it goes to the URL      *)
(* configured for the selector; and 200 with level equal to the selector   *)
(* is returned only after that POST was answered with a 2xx status.        *)
(***************************************************************************)
\* The payload main validates: the caller's embeds, the first one with the
\* auto color when auto-color is on.
SchemaValid ==
    \A i \in 1..Len(args.embeds.items) :
        LET e == args.embeds.items[i]
        IN  /\ e.obj
            /\ (i = 1 /\ AutoColorsOn) \/ e.color.kind # "str"
            /\ \A j \in 1..Len(e.fields.items) :
                e.fields.items[j].name.some /\ e.fields.items[j].value.some

\* C8, without its last clause: when the POST is issued, and where to.
C8_PostRule ==
    /\ Len(posts) <= 1
    /\ posts # <<>> <=> (Routed /\ ContentPresent /\ SchemaValid)
    /\ posts # <<>> <=> passed = <<"auth", "resolve", "content", "schema">>
    /\ posts # <<>> => posts[1].url = ConfiguredUrl.v

\* C8: the rule of the POST, and 200 only after a 2xx reply.
C8_SinglePost ==
    /\ C8_PostRule
    /\ (Returned /\ response.statusCode = 200)
        => /\ posts # <<>>
           /\ response.body.level = Selector
           /\ reply.kind = "http" /\ Is2xx(reply.status)

(***************************************************************************)
(* C9  Every invocation ends with exactly one response and no fault        *)
(* escapes: a transport failure of the POST answers 500 "Error sending     *)
(* webhook: ...", every other unexpected fault (malformed path value,      *)
(* first embed that is not an object, undecodable destination body)        *)
(* answers 500 "Internal server error: ...", and the status is one of 200, *)
(* 400, 401, 500 or the destination's non-2xx status.                      *)
(***************************************************************************)
MalformedPath == Called /\ ~StringPath
FirstEmbedNotObject == Routed /\ FirstEmbedGiven /\ ~FirstEmbed.obj
UndecodableReply == reply.kind = "http" /\ reply.status >= 400 /\ reply.content = "raw"

C9_StatusRange ==
    \/ response.statusCode \in {200, 400, 401, 500}
    \/ reply.kind = "http" /\ ~Is2xx(reply.status) /\ response.statusCode = reply.status

C9_Common ==
    Returned =>
        /\ response # NoResponse
        /\ C9_StatusRange
        /\ reply.kind = "transport" => ErrorIs(500, "Error sending webhook: ")
        /\ MalformedPath => ErrorIs(500, "Internal server error: ")
        /\ FirstEmbedNotObject => ErrorIs(500, "Internal server error: ")

C9_AmendedState ==
    /\ C9_Common
    /\ (Returned /\ UndecodableReply)
        => \/ ErrorIs(500, "Error sending webhook: ")
           \/ ErrorIs(500, "Internal server error: ")

Failure == Returned /\ response.statusCode # 200
HasDebugObject == "debug" \in response.body.keys /\ response.body.debug.kind = "object"

C10_DebugOnEveryFailure ==
    Failure =>
        /\ "error" \in response.body.keys
        /\ IF DebugOn THEN HasDebugObject ELSE ~HasDebugObject

(***************************************************************************)
(* C10, amended: with DEBUG_MODE true the 401 and the 400 "Invalid webhook *)
(* path" responses, and only they, include a debug object, which holds the *)
(* stripped path, its parts and a null expected_api_key; with DEBUG_MODE   *)
(* not true no response holds a debug object, and those two carry          *)
(* "debug": null.  Every failure body has an error string.                 *)
(***************************************************************************)
PathFailure ==
    \/ ErrorIs(401, "Invalid or missing API key")
    \/ ErrorIs(400, "Invalid webhook path")

C10_Amended ==
    Failure =>
        /\ "error" \in response.body.keys
        /\ "debug" \in response.body.keys <=> PathFailure
        /\ HasDebugObject <=> (DebugOn /\ PathFailure)
        /\ HasDebugObject =>
            /\ response.body.debug.original_path = strip(args.ow_path.v)
            /\ response.body.debug.path_parts = Segments
            /\ response.body.debug.expected_api_key = NoneTok

\* DEBUG_MODE=True and an authenticated request with an unknown selector.
C10_Witness ==
    /\ DebugOn /\ Authenticated
    /\ ErrorIs(400, "Invalid webhook path")
    /\ HasDebugObject
    /\ response.body.debug.webhook_type = SomeTok(Selector)

====
